---- MODULE Spec2Model ----
(***************************************************************************)
(* A model of serdescontainer/base_container.py: the encoder _to_dict, the *)
(* resolver _instantiate_type, the decoder _from_dict and the BaseContainer*)
(* facade (from_dict, from_json, from_yaml, from_file, to_dict, to_json,   *)
(* to_yaml).                                                               *)
(*                                                                         *)
(* Every Python object is a node [k, n, s, c]: k is the name of its Python *)
(* type, n an integer payload, s a string payload and c the sequence of    *)
(* its children. A raised exception is a node of kind "raise" whose s is   *)
(* the exception class; an operator that meets one in a sub-result returns *)
(* it, as the exception propagates in the code.                            *)
(*                                                                         *)
(* The interpreter is taken to be one where the metaclass of enum classes  *)
(* is named "EnumMeta" (CPython up to 3.10), the name line 113 compares    *)
(* against.                                                                *)
(***************************************************************************)
EXTENDS Integers, Sequences, FiniteSets, TLC

VARIABLES pc, call, result, opened, origin, installed_pyyaml

vars == <<pc, call, result, opened, origin, installed_pyyaml>>

(***************************************************************************)
(* Bounds of the model.                                                    *)
(***************************************************************************)
\* longest list, tuple or mapping among the enumerated inputs
MaxLen == 2

(***************************************************************************)
(* Python objects.                                                         *)
(***************************************************************************)
Node(k, n, s, c) == [k |-> k, n |-> n, s |-> s, c |-> c]

None == Node("NoneType", 0, "", <<>>)

PyBool(b) == Node("bool", IF b THEN 1 ELSE 0, "", <<>>)

PyInt(i) == Node("int", i, "", <<>>)

PyStr(s) == Node("str", 0, s, <<>>)

PyList(c) == Node("list", 0, "", c)

PyTuple(c) == Node("tuple", 0, "", c)

\* one key/value entry of a dict; a dict keeps its entries in insertion order
Item(key, value) == Node("item", 0, "", <<key, value>>)

PyDict(items) == Node("dict", 0, "", items)

\* dt.datetime(year, month, day, hour, minute, second), naive, microsecond 0
Datetime(y, m, d, H, M, S) == Node("datetime", 0, "", <<PyInt(y), PyInt(m), PyInt(d), PyInt(H), PyInt(M), PyInt(S)>>)

\* a bytes object: a leaf json.dumps rejects
Bytes(s) == Node("bytes", 0, s, <<>>)

\* an object that is no dataclass and has a to_dict() method returning payload
Duck(payload) == Node("duck", 0, "", <<payload>>)

\* a class object, by its qualified name
Class(qualname) == Node("class", 0, qualname, <<>>)

\* a member of an enum class
Member(cls, name) == Node("member", 0, name, <<cls>>)

\* an instance of a dataclass: its fields in declaration order
Instance(cls, items) == Node("instance", 0, cls.s, items)

\* typing.List[...], typing.Tuple[...], typing.Dict[...], typing.Optional[...]:
\* a typing._GenericAlias with __origin__ and __args__
Alias(origin_, args) == Node("alias", 0, origin_, args)

Ellipsis == Node("ellipsis", 0, "", <<>>)

\* a raised exception
Raise(exc) == Node("raise", 0, exc, <<>>)

IsRaise(v) == v.k = "raise"

\* the first exception among the elements of a sequence of results
HasRaise(seq) == \E i \in 1..Len(seq) : IsRaise(seq[i])

FirstRaise(seq) == seq[CHOOSE i \in 1..Len(seq) : IsRaise(seq[i]) /\ \A j \in 1..(i - 1) : ~IsRaise(seq[j])]

(***************************************************************************)
(* Text: characters, digits, and the datetime conversions.                 *)
(***************************************************************************)
Char(s, i) == SubSeq(s, i, i)

Digits == "0123456789"

Digit(d) == Char(Digits, d + 1)

IsDigit(ch) == \E d \in 0..9 : Digit(d) = ch

DigitVal(ch) == CHOOSE d \in 0..9 : Digit(d) = ch

AllDigits(s) == \A i \in 1..Len(s) : IsDigit(Char(s, i))

RECURSIVE ParseInt(_)
ParseInt(s) == IF Len(s) = 0 THEN 0 ELSE 10 * ParseInt(SubSeq(s, 1, Len(s) - 1)) + DigitVal(Char(s, Len(s)))

Pad2(v) == Digit((v \div 10) % 10) \o Digit(v % 10)

Pad4(v) == Pad2(v \div 100) \o Pad2(v % 100)

\* datetime.__str__: isoformat(sep=" ")
DatetimeStr(obj) == Pad4(obj.c[1].n) \o "-" \o Pad2(obj.c[2].n) \o "-" \o Pad2(obj.c[3].n) \o " " \o Pad2(obj.c[4].n) \o ":" \o Pad2(obj.c[5].n) \o ":" \o Pad2(obj.c[6].n)

Directive(obj, ch) ==
    CASE ch = "Y" -> Pad4(obj.c[1].n)
      [] ch = "m" -> Pad2(obj.c[2].n)
      [] ch = "d" -> Pad2(obj.c[3].n)
      [] ch = "H" -> Pad2(obj.c[4].n)
      [] ch = "M" -> Pad2(obj.c[5].n)
      [] ch = "S" -> Pad2(obj.c[6].n)
      [] ch = "%" -> "%"
      [] OTHER -> "%" \o ch

\* datetime.strftime(format)
RECURSIVE Strftime(_, _)
Strftime(obj, format) ==
    IF Len(format) = 0 THEN ""
    ELSE IF Char(format, 1) = "%" /\ Len(format) >= 2
         THEN Directive(obj, Char(format, 2)) \o Strftime(obj, SubSeq(format, 3, Len(format)))
         ELSE Char(format, 1) \o Strftime(obj, SubSeq(format, 2, Len(format)))

IsLeap(y) == (y % 4 = 0 /\ y % 100 # 0) \/ y % 400 = 0

DaysInMonth(y, m) == IF m = 2 THEN (IF IsLeap(y) THEN 29 ELSE 28) ELSE IF m \in {4, 6, 9, 11} THEN 30 ELSE 31

\* the time part of an ISO string, from position 11 on: "", "?HH", "?HH:MM" or "?HH:MM:SS"
IsoTimeOk(s) ==
    /\ Len(s) \in {10, 13, 16, 19}
    /\ Len(s) >= 13 => AllDigits(SubSeq(s, 12, 13))
    /\ Len(s) >= 16 => Char(s, 14) = ":" /\ AllDigits(SubSeq(s, 15, 16))
    /\ Len(s) >= 19 => Char(s, 17) = ":" /\ AllDigits(SubSeq(s, 18, 19))

IsoPart(s, from, to) == IF Len(s) >= to THEN ParseInt(SubSeq(s, from, to)) ELSE 0

\* datetime.fromisoformat(date_string)
FromIsoFormat(s) ==
    IF ~(/\ Len(s) >= 10
         /\ AllDigits(SubSeq(s, 1, 4)) /\ Char(s, 5) = "-"
         /\ AllDigits(SubSeq(s, 6, 7)) /\ Char(s, 8) = "-"
         /\ AllDigits(SubSeq(s, 9, 10))
         /\ IsoTimeOk(s))
    THEN Raise("ValueError")
    ELSE LET y == ParseInt(SubSeq(s, 1, 4))
             m == ParseInt(SubSeq(s, 6, 7))
             d == ParseInt(SubSeq(s, 9, 10))
             H == IsoPart(s, 12, 13)
             M == IsoPart(s, 15, 16)
             S == IsoPart(s, 18, 19)
         IN  IF y >= 1 /\ m \in 1..12 /\ d >= 1 /\ d <= DaysInMonth(y, m) /\ H <= 23 /\ M <= 59 /\ S <= 59
             THEN Datetime(y, m, d, H, M, S)
             ELSE Raise("ValueError")

\* datetime.strptime called with three arguments: the classmethod takes exactly
\* two, so the call raises TypeError whatever the arguments are
Strptime3(date_string, second, format) == Raise("TypeError")

(***************************************************************************)
(* Classes. The built-in classes, and the classes of an application module *)
(* "app" that uses the library: an enum, and dataclasses deriving from     *)
(* BaseContainer whose fields cover the supported type shapes.             *)
(***************************************************************************)
IntT == Class("int")

StrT == Class("str")

DatetimeT == Class("datetime.datetime")

NoneT == Class("NoneType")

\* typing.Any and the subscriptable names of typing: special forms, no classes
Special(name) == Node("special", 0, name, <<>>)

AnyT == Special("Any")

FugaEnum == Class("app.FugaEnum")

Hoge == Class("app.Hoge")

Person == Class("app.Person")

Shelf == Class("app.Shelf")

Owner == Class("app.Owner")

Fwd == Class("app.Fwd")

Misc == Class("app.Misc")

EnumClasses == {FugaEnum}

DataClasses == {Hoge, Person, Shelf, Owner, Fwd, Misc}

\* class FugaEnum(enum.Enum): A = 1; B = "b"; N = None; X = b"x"
MemberNames(cls) == IF cls = FugaEnum THEN <<"A", "B", "N", "X">> ELSE <<>>

\* member.value
MemberValue(member) ==
    CASE member.s = "A" -> PyInt(1)
      [] member.s = "B" -> PyStr("b")
      [] member.s = "N" -> None
      [] OTHER -> Bytes("x")

\* the marker dataclasses.MISSING of a field without default
MISSING == Node("MISSING", 0, "", <<>>)

Field(name, type, default) == [name |-> name, type |-> type, default |-> default]

\* dataclasses.fields(cls): name, declared type and default of each field
Fields(cls) ==
    CASE cls = Hoge -> <<Field("x", IntT, MISSING), Field("e", FugaEnum, MISSING)>>
      [] cls = Person -> <<Field("name", StrT, MISSING),
                           Field("born", DatetimeT, MISSING),
                           Field("tags", Alias("tuple", <<StrT, Ellipsis>>), MISSING)>>
      [] cls = Shelf -> <<Field("items", Alias("list", <<Hoge>>), MISSING),
                          Field("pair", Alias("tuple", <<IntT, DatetimeT>>), MISSING),
                          Field("index", Alias("dict", <<FugaEnum, Alias("tuple", <<IntT>>)>>), MISSING)>>
      [] cls = Owner -> <<Field("hoge", Hoge, MISSING),
                          Field("age", Alias("Union", <<IntT, NoneT>>), MISSING),
                          Field("boss", Alias("Union", <<Hoge, NoneT>>), None)>>
      [] cls = Fwd -> <<Field("child", PyStr("Hoge"), MISSING),
                        Field("kids", PyStr("List[Hoge]"), MISSING),
                        Field("maybe", PyStr("Optional[Hoge]"), None)>>
      [] cls = Misc -> <<Field("blob", AnyT, MISSING)>>
      [] OTHER -> <<>>

\* BaseContainer.custom_classes, as each class overrides it
custom_classes(cls) == IF cls = Fwd THEN <<Hoge, FugaEnum>> ELSE <<>>

\* type(obj)
TypeOf(obj) ==
    CASE obj.k = "member" -> obj.c[1]
      [] obj.k = "instance" -> Class(obj.s)
      [] obj.k = "datetime" -> DatetimeT
      [] obj.k = "duck" -> Class("app.Duck")
      [] obj.k = "class" -> Class("type")
      [] obj.k = "alias" -> Class("typing._GenericAlias")
      [] OTHER -> Class(obj.k)

\* dataclasses.is_dataclass(obj): a dataclass or an instance of one
is_dataclass(obj) == obj.k = "instance" \/ obj \in DataClasses

\* whether hash(obj) succeeds
RECURSIVE Hashable(_)
Hashable(obj) ==
    CASE obj.k \in {"list", "dict", "instance"} -> FALSE
      [] obj.k = "tuple" -> \A i \in 1..Len(obj.c) : Hashable(obj.c[i])
      [] OTHER -> TRUE

\* d[key] = value on the entries of a dict
SetItem(items, key, value) ==
    IF \E i \in 1..Len(items) : items[i].c[1] = key
    THEN [i \in 1..Len(items) |-> IF items[i].c[1] = key THEN Item(key, value) ELSE items[i]]
    ELSE Append(items, Item(key, value))

RECURSIVE DictOfItems(_, _)
DictOfItems(acc, pairs) ==
    IF Len(pairs) = 0 THEN acc
    ELSE DictOfItems(SetItem(acc, pairs[1].c[1], pairs[1].c[2]), Tail(pairs))

\* a dict display or comprehension over key/value results, evaluated in order:
\* the first exception raised, TypeError on an unhashable key
MakeDict(pairs) ==
    LET flat == [i \in 1..(2 * Len(pairs)) |-> pairs[(i + 1) \div 2].c[2 - (i % 2)]]
        bad(i) == IsRaise(flat[i]) \/ (i % 2 = 0 /\ ~Hashable(flat[i - 1]))
    IN  IF \E i \in 1..Len(flat) : bad(i)
        THEN LET i == CHOOSE i \in 1..Len(flat) : bad(i) /\ \A j \in 1..(i - 1) : ~bad(j)
             IN  IF IsRaise(flat[i]) THEN flat[i] ELSE Raise("TypeError")
        ELSE PyDict(DictOfItems(<<>>, pairs))

\* a list or tuple built from element results: the first exception raised wins
MakeSeq(kind, elems) == IF HasRaise(elems) THEN FirstRaise(elems) ELSE Node(kind, 0, "", elems)

\* dict.get on the entries of a dict; MISSING when the key is absent
GetItem(items, key) ==
    IF \E i \in 1..Len(items) : items[i].c[1] = key
    THEN items[CHOOSE i \in 1..Len(items) : items[i].c[1] = key].c[2]
    ELSE MISSING

(***************************************************************************)
(* The encoder.                                                            *)
(***************************************************************************)
\* dataclasses.asdict(obj): instances become dicts, through lists, tuples and
\* dicts; any other object is copied
RECURSIVE asdict_inner(_)
asdict_inner(obj) ==
    CASE obj.k = "instance" ->
            MakeDict([i \in 1..Len(obj.c) |-> Item(obj.c[i].c[1], asdict_inner(obj.c[i].c[2]))])
      [] obj.k \in {"list", "tuple"} ->
            MakeSeq(obj.k, [i \in 1..Len(obj.c) |-> asdict_inner(obj.c[i])])
      [] obj.k = "dict" ->
            MakeDict([i \in 1..Len(obj.c) |-> Item(asdict_inner(obj.c[i].c[1]), asdict_inner(obj.c[i].c[2]))])
      [] OTHER -> obj

asdict(obj) == IF obj.k = "instance" THEN asdict_inner(obj) ELSE Raise("TypeError")

\* json.dumps(obj) on an object that is no list, tuple or dict
JsonDumpsOk(obj) == obj.k \in {"NoneType", "bool", "int", "float", "str"}

\* the keyword arguments _to_dict reads; datetime_format "" stands for None
Kwargs(serialize, unserialized_types, datetime_format) ==
    [serialize |-> serialize, unserialized_types |-> unserialized_types, datetime_format |-> datetime_format]

RECURSIVE _to_dict(_, _)
_to_dict(obj, kwargs) ==
    IF TypeOf(obj) \in kwargs.unserialized_types THEN obj
    ELSE IF is_dataclass(obj) THEN
        LET d == asdict(obj) IN IF IsRaise(d) THEN d ELSE _to_dict(d, kwargs)
    ELSE IF obj.k = "duck" THEN obj.c[1]
    ELSE IF obj.k = "list" THEN MakeSeq("list", [i \in 1..Len(obj.c) |-> _to_dict(obj.c[i], kwargs)])
    ELSE IF obj.k = "tuple" THEN MakeSeq("tuple", [i \in 1..Len(obj.c) |-> _to_dict(obj.c[i], kwargs)])
    ELSE IF obj.k = "dict" THEN
        MakeDict([i \in 1..Len(obj.c) |-> Item(_to_dict(obj.c[i].c[1], kwargs), _to_dict(obj.c[i].c[2], kwargs))])
    ELSE IF kwargs.serialize THEN
        IF obj.k = "member" THEN MemberValue(obj)
        ELSE IF obj.k = "datetime" THEN
            (IF kwargs.datetime_format # "" THEN PyStr(Strftime(obj, kwargs.datetime_format)) ELSE PyStr(DatetimeStr(obj)))
        ELSE IF JsonDumpsOk(obj) THEN obj
        ELSE Raise("TypeError")
    ELSE obj

\* a value Python takes for false
Falsy(v) ==
    \/ v = None
    \/ v.k \in {"bool", "int"} /\ v.n = 0
    \/ v.k = "str" /\ v.s = ""
    \/ v.k \in {"list", "tuple", "dict"} /\ v.c = <<>>

\* to_dict with the filter written "if v" in place of "if v is not None"
to_dict_DropsFalsy(self, serialize, ignore_none_fields, unserialized_types, datetime_format) ==
    LET ret == _to_dict(self, Kwargs(serialize, unserialized_types, datetime_format))
    IN  IF IsRaise(ret) \/ ~ignore_none_fields THEN ret
        ELSE IF ret.k # "dict" THEN Raise("AttributeError")
        ELSE PyDict(SelectSeq(ret.c, LAMBDA item : ~Falsy(item.c[2])))

\* BaseContainer.to_dict
to_dict(self, serialize, ignore_none_fields, unserialized_types, datetime_format) ==
    LET ret == _to_dict(self, Kwargs(serialize, unserialized_types, datetime_format))
    IN  IF IsRaise(ret) \/ ~ignore_none_fields THEN ret
        ELSE IF ret.k # "dict" THEN Raise("AttributeError")
        ELSE PyDict(SelectSeq(ret.c, LAMBDA item : item.c[2] # None))

(***************************************************************************)
(* The resolver: eval of a type expression, and the registry lookup.       *)
(***************************************************************************)
\* the first position >= i of s that holds ch, Len(s) + 1 if none
RECURSIVE Find(_, _, _)
Find(s, ch, i) == IF i > Len(s) \/ Char(s, i) = ch THEN i ELSE Find(s, ch, i + 1)

\* the last position of s that holds ch, 0 if none
RECURSIVE RFind(_, _, _)
RFind(s, ch, i) == IF i = 0 \/ Char(s, i) = ch THEN i ELSE RFind(s, ch, i - 1)

\* str.startswith
StartsWith(s, prefix) == Len(s) >= Len(prefix) /\ SubSeq(s, 1, Len(prefix)) = prefix

\* the end of the dotted name (or the ellipsis literal) that starts at i
RECURSIVE ScanName(_, _)
ScanName(s, i) == IF i > Len(s) \/ Char(s, i) \in {"[", "]", ",", " "} THEN i ELSE ScanName(s, i + 1)

RECURSIVE SkipSpaces(_, _)
SkipSpaces(s, i) == IF i <= Len(s) /\ Char(s, i) = " " THEN SkipSpaces(s, i + 1) ELSE i

Parsed(tree, next) == [tree |-> tree, next |-> next]

SyntaxError == Parsed(Raise("SyntaxError"), 0)

\* the syntax tree of a type expression: a dotted name, with its subscript (n = 1) if any
Expr(name, subscripted, args) == Node("expr", IF subscripted THEN 1 ELSE 0, name, args)

\* expr ::= name | name "[" expr ("," expr)* "]", from position i of s
RECURSIVE ParseExpr(_, _), ParseArgs(_, _, _)
\* the subscript of name, parsed as a
Subscripted(name, a) == IF IsRaise(a.tree) THEN a ELSE Parsed(Expr(name, TRUE, a.tree.c), a.next)

\* the name that spans positions b to e - 1, and the subscript that may follow
ParseName(s, b, e) ==
    IF e = b THEN SyntaxError
    ELSE IF e <= Len(s) /\ Char(s, e) = "[" THEN Subscripted(SubSeq(s, b, e - 1), ParseArgs(s, e + 1, <<>>))
    ELSE Parsed(Expr(SubSeq(s, b, e - 1), FALSE, <<>>), e)

ParseFrom(s, b) == ParseName(s, b, ScanName(s, b))

ParseExpr(s, i) == ParseFrom(s, SkipSpaces(s, i))

\* what follows the argument tree at position n: a comma and more, or the bracket
ParseMore(s, tree, n, acc) ==
    IF n > Len(s) THEN SyntaxError
    ELSE IF Char(s, n) = "," THEN ParseArgs(s, n + 1, Append(acc, tree))
    ELSE IF Char(s, n) = "]" THEN Parsed(PyTuple(Append(acc, tree)), n + 1)
    ELSE SyntaxError

ParseAfter(s, a, acc) == IF IsRaise(a.tree) THEN SyntaxError ELSE ParseMore(s, a.tree, SkipSpaces(s, a.next), acc)

ParseArgs(s, i, acc) == ParseAfter(s, ParseExpr(s, i), acc)

\* the whole of s must be one expression
ParseAll(s, p) ==
    IF IsRaise(p.tree) THEN p.tree
    ELSE IF SkipSpaces(s, p.next) <= Len(s) THEN Raise("SyntaxError")
    ELSE p.tree

\* the syntax tree of the whole text
Parse(s) == ParseAll(s, ParseExpr(s, 1))

\* the attributes of the typing module the model's type texts can name
TypingNames == {"List", "Tuple", "Dict", "Optional", "Union", "Any"}

\* what base_container imports from typing (line 9)
ImportedNames == {"Any", "Dict", "List", "Optional", "Union"}

BuiltinNames == {"int", "str", "float", "bool"}

\* a name looked up as an attribute of typing ("typing") or in the globals and
\* builtins of base_container ("globals")
Lookup(name, namespace) ==
    IF namespace = "typing"
    THEN IF name \in TypingNames THEN Special(name) ELSE Raise("AttributeError")
    ELSE IF name \in ImportedNames THEN Special(name)
         ELSE IF name \in BuiltinNames THEN Class(name)
         ELSE IF name = "dt.datetime" THEN DatetimeT
         ELSE IF name = "..." THEN Ellipsis
         ELSE IF name = "None" THEN None
         ELSE Raise("NameError")

\* typing's special_form[args]
Subscript(form, params) ==
    CASE form = Special("List") /\ Len(params) = 1 -> Alias("list", params)
      [] form = Special("Dict") /\ Len(params) = 2 -> Alias("dict", params)
      [] form = Special("Tuple") -> Alias("tuple", params)
      [] form = Special("Optional") /\ Len(params) = 1 ->
            IF params[1] = NoneT THEN NoneT ELSE Alias("Union", <<params[1], NoneT>>)
      [] OTHER -> Raise("TypeError")

\* typing's special_form[args], None among the arguments standing for NoneType
SubscriptArgs(form, args) ==
    IF HasRaise(args) THEN FirstRaise(args)
    ELSE Subscript(form, [i \in 1..Len(args) |-> IF args[i] = None THEN NoneT ELSE args[i]])

\* the value of a syntax tree: the head in the given namespace, the arguments
\* of a subscript in the globals
RECURSIVE EvalExpr(_, _)
EvalHead(tree, head) ==
    IF IsRaise(head) \/ tree.n = 0 THEN head
    ELSE SubscriptArgs(head, [i \in 1..Len(tree.c) |-> EvalExpr(tree.c[i], "globals")])

EvalExpr(tree, namespace) == EvalHead(tree, Lookup(tree.s, namespace))

EvalTree(tree, namespace) == IF IsRaise(tree) THEN tree ELSE EvalExpr(tree, namespace)

\* eval(source) for a type expression; attribute is TRUE for eval(f"typing.{type}")
Eval(source, attribute) == EvalTree(Parse(source), IF attribute THEN "typing" ELSE "globals")

\* str(type) of a class: "<enum 'FugaEnum'>", "<class 'app.Hoge'>"
ClassStr(cls) ==
    IF cls \in EnumClasses
    THEN "<enum '" \o SubSeq(cls.s, RFind(cls.s, ".", Len(cls.s)) + 1, Len(cls.s)) \o "'>"
    ELSE "<class '" \o cls.s \o "'>"

\* re.match(r"<.+? '(.+?)'>", str(type)).groups()[0] on the str of a class
Quoted(s, open) == SubSeq(s, open + 1, Find(s, "'", open + 2) - 1)

_get_class_name(type) == Quoted(ClassStr(type), Find(ClassStr(type), "'", 1))

\* class_name.split(".")[-1]
BaseName(class_name) == SubSeq(class_name, RFind(class_name, ".", Len(class_name)) + 1, Len(class_name))

\* the loop of lines 63-68 falling back on the last custom class instead of the text
LookupCustom_FallsBack(type, custom_classes_) ==
    IF \E i \in 1..Len(custom_classes_) : type = BaseName(_get_class_name(custom_classes_[i]))
    THEN custom_classes_[CHOOSE i \in 1..Len(custom_classes_) :
            /\ type = BaseName(_get_class_name(custom_classes_[i]))
            /\ \A h \in 1..(i - 1) : type # BaseName(_get_class_name(custom_classes_[h]))]
    ELSE IF Len(custom_classes_) = 0 THEN PyStr(type)
    ELSE custom_classes_[Len(custom_classes_)]

\* the loop of lines 63-68: the first custom class of that base name, else the text
RECURSIVE LookupCustom(_, _)
LookupCustom(type, custom_classes_) ==
    IF Len(custom_classes_) = 0 THEN PyStr(type)
    ELSE IF type = BaseName(_get_class_name(Head(custom_classes_))) THEN Head(custom_classes_)
    ELSE LookupCustom(type, Tail(custom_classes_))

\* try: return attempt / except: handler
Try(attempt, handler) == IF IsRaise(attempt) THEN handler ELSE attempt

_instantiate_type(type, custom_classes_) ==
    Try(Eval(type, TRUE), Try(Eval(type, FALSE), LookupCustom(type, custom_classes_)))

(***************************************************************************)
(* The decoder.                                                            *)
(***************************************************************************)
\* iter(obj): the elements a for loop over obj yields (as a list node), or
\* the TypeError of an object that is not iterable
Iterate(obj) ==
    CASE obj.k \in {"list", "tuple"} -> PyList(obj.c)
      [] obj.k = "dict" -> PyList([i \in 1..Len(obj.c) |-> obj.c[i].c[1]])
      [] obj.k = "str" -> PyList([i \in 1..Len(obj.s) |-> PyStr(Char(obj.s, i))])
      [] OTHER -> Raise("TypeError")

\* ref_type.__class__.__name__
MetaName(ref_type) ==
    CASE ref_type \in EnumClasses -> "EnumMeta"
      [] ref_type \in DataClasses -> "ABCMeta"
      [] ref_type.k = "class" -> "type"
      [] ref_type.k = "alias" -> "_GenericAlias"
      [] ref_type.k = "special" -> "_SpecialForm"
      [] OTHER -> ref_type.k

\* enum_class(value): the member of that value, ValueError if there is none
EnumCall(cls, value) ==
    LET names == MemberNames(cls)
        hit(i) == MemberValue(Member(cls, names[i])) = value \/ Member(cls, names[i]) = value
    IN  IF \E i \in 1..Len(names) : hit(i)
        THEN Member(cls, names[CHOOSE i \in 1..Len(names) : hit(i) /\ \A j \in 1..(i - 1) : ~hit(j)])
        ELSE Raise("ValueError")

\* ref_type(**obj): the generated __init__ of a dataclass; TypeError on a key
\* that is no field (or no string) and on a missing field without default
Construct(ref_type, obj) ==
    LET fields == Fields(ref_type)
        declared(key) == \E i \in 1..Len(fields) : PyStr(fields[i].name) = key
        given(i) == GetItem(obj.c, PyStr(fields[i].name))
    IN  IF \E i \in 1..Len(obj.c) : ~declared(obj.c[i].c[1]) THEN Raise("TypeError")
        ELSE IF \E i \in 1..Len(fields) : given(i) = MISSING /\ fields[i].default = MISSING THEN Raise("TypeError")
        ELSE Instance(ref_type, [i \in 1..Len(fields) |->
                 Item(PyStr(fields[i].name), IF given(i) = MISSING THEN fields[i].default ELSE given(i))])

\* the keyword arguments _from_dict reads; datetime_format "" stands for None
DecodeKwargs(custom_classes_, datetime_format) ==
    [custom_classes |-> custom_classes_, datetime_format |-> datetime_format]

\* lines 89-92 without the ellipsis case of line 91
TupleArgs_NoEllipsis(type_args, n) ==
    IF Len(type_args) = 1 THEN [i \in 1..n |-> type_args[1]] ELSE type_args

\* the type arguments a tuple of len(obj) elements is decoded against (lines 89-92)
TupleArgs(type_args, n) ==
    IF Len(type_args) = 1 THEN [i \in 1..n |-> type_args[1]]
    ELSE IF Len(type_args) = 2 /\ type_args[2] = Ellipsis THEN [i \in 1..n |-> type_args[1]]
    ELSE type_args

\* ref_type.replace("Optional[", "", 1)[:-1] on a text that starts with "Optional["
StripOptional(ref_type) == SubSeq(ref_type, Len("Optional[") + 1, Len(ref_type) - 1)

RECURSIVE _from_dict(_, _, _)
\* lines 86-87: a list of the decoded elements
FromList(values, type_args, kwargs) ==
    MakeSeq("list", [i \in 1..Len(values) |-> _from_dict(values[i], type_args[1], kwargs)])

\* lines 93-100: the length check, then a tuple decoded position by position
FromTuple(values, args, kwargs) ==
    IF Len(args) # Len(values) THEN Raise("TypeError")
    ELSE MakeSeq("tuple", [i \in 1..Len(values) |-> _from_dict(values[i], args[i], kwargs)])

\* lines 102-106: a dict of the decoded keys and values
FromMapping(items, type_args, kwargs) ==
    MakeDict([i \in 1..Len(items) |->
        Item(_from_dict(items[i].c[1], type_args[1], kwargs), _from_dict(items[i].c[2], type_args[2], kwargs))])

\* lines 85-106: ref_type is a typing._GenericAlias; iter is iter(obj)
FromAlias(obj, ref_type, iter, kwargs) ==
    IF ref_type.s = "list" THEN
        IF IsRaise(iter) THEN iter ELSE FromList(iter.c, ref_type.c, kwargs)
    ELSE IF ref_type.s = "tuple" THEN
        IF IsRaise(iter) THEN iter ELSE FromTuple(iter.c, TupleArgs(ref_type.c, Len(iter.c)), kwargs)
    ELSE IF ref_type.s = "dict" THEN
        IF obj.k # "dict" THEN Raise("AttributeError") ELSE FromMapping(obj.c, ref_type.c, kwargs)
    ELSE obj

\* lines 119-122: the value of each field, decoded against the declared type
\* when it is not of that type
FromFields(obj, fields, kwargs) ==
    MakeSeq("list", [i \in 1..Len(fields) |->
        IF TypeOf(GetItem(obj.c, PyStr(fields[i].name))) # fields[i].type
        THEN _from_dict(GetItem(obj.c, PyStr(fields[i].name)), fields[i].type, kwargs)
        ELSE GetItem(obj.c, PyStr(fields[i].name))])

\* line 123: the fields set to the decoded values, unless decoding one raised
SetFields(obj, fields, values) ==
    IF IsRaise(values) THEN values
    ELSE Instance(Class(obj.s), [i \in 1..Len(fields) |-> Item(PyStr(fields[i].name), values.c[i])])

\* line 117: _from_dict(ref_type(**obj), None, **kwargs)
FromMade(made, kwargs) == IF IsRaise(made) THEN made ELSE _from_dict(made, None, kwargs)

\* lines 82-124: ref_type is resolved
FromResolved(obj, ref_type, kwargs) ==
    IF obj = None THEN None
    ELSE IF ref_type.k = "alias" THEN FromAlias(obj, ref_type, Iterate(obj), kwargs)
    ELSE IF ref_type = DatetimeT /\ obj.k = "str" THEN
        IF kwargs.datetime_format # "" THEN Strptime3(obj.s, None, kwargs.datetime_format)
        ELSE FromIsoFormat(obj.s)
    ELSE IF MetaName(ref_type) = "EnumMeta" THEN EnumCall(ref_type, obj)
    ELSE IF is_dataclass(ref_type) THEN
        IF obj.k = "dict" THEN FromMade(Construct(ref_type, obj), kwargs) ELSE obj
    ELSE IF is_dataclass(obj) THEN
        IF obj.k # "instance" THEN Raise("AttributeError")
        ELSE SetFields(obj, Fields(Class(obj.s)), FromFields(obj, Fields(Class(obj.s)), kwargs))
    ELSE obj

_from_dict(obj, ref_type, kwargs) ==
    IF ref_type.k = "str" /\ StartsWith(ref_type.s, "Optional[")
    THEN _from_dict(obj, PyStr(StripOptional(ref_type.s)), kwargs)
    ELSE FromResolved(obj, IF ref_type.k = "str" THEN _instantiate_type(ref_type.s, kwargs.custom_classes) ELSE ref_type, kwargs)

\* BaseContainer.from_dict: every class of the model is a dataclass
from_dict(cls, data, datetime_format) ==
    IF cls \in DataClasses
    THEN _from_dict(data, cls, DecodeKwargs(custom_classes(cls), datetime_format))
    ELSE Raise("NotImplementedError")

(***************************************************************************)
(* The file adapters.                                                      *)
(***************************************************************************)
\* pathlib: Path(path).suffix, the last dot of the final component and what
\* follows it, unless that dot starts or ends the component
PathSuffix(path) ==
    LET name == SubSeq(path, RFind(path, "/", Len(path)) + 1, Len(path))
        dot == RFind(name, ".", Len(name))
    IN  IF 1 < dot /\ dot < Len(name) THEN SubSeq(name, dot, Len(name)) ELSE ""

\* whether s ends with suffix
EndsWith(s, suffix) == Len(suffix) <= Len(s) /\ SubSeq(s, Len(s) - Len(suffix) + 1, Len(s)) = suffix

\* the dispatch of lines 222-227 on the end of the path instead of its suffix
from_file_EndsWith(path) ==
    IF EndsWith(path, ".json") THEN "from_json"
    ELSE IF EndsWith(path, ".yaml") \/ EndsWith(path, ".yml") THEN "from_yaml"
    ELSE "ValueError"

\* the branch BaseContainer.from_file takes (lines 222-227)
from_file(path) ==
    IF PathSuffix(path) = ".json" THEN "from_json"
    ELSE IF PathSuffix(path) \in {".yaml", ".yml"} THEN "from_yaml"
    ELSE "ValueError"

\* whether json.dump / yaml.safe_dump can write data
RECURSIVE Dumpable(_)
Dumpable(data) ==
    CASE data.k \in {"NoneType", "bool", "int", "float", "str"} -> TRUE
      [] data.k \in {"list", "tuple"} -> \A i \in 1..Len(data.c) : Dumpable(data.c[i])
      [] data.k = "dict" -> \A i \in 1..Len(data.c) :
            /\ data.c[i].c[1].k \in {"NoneType", "bool", "int", "float", "str"}
            /\ Dumpable(data.c[i].c[2])
      [] OTHER -> FALSE

\* an open() call: the file, the mode and the function that made the call
Open(path, mode, by) == [path |-> path, mode |-> mode, by |-> by]

(***************************************************************************)
(* The inputs of the calls.                                                *)
(***************************************************************************)
\* the sequences over S of at most MaxLen elements
Seqs(S) == UNION {[1..n -> S] : n \in 0..MaxLen}

\* cls(*values)
New(cls, values) == Instance(cls, [i \in 1..Len(Fields(cls)) |-> Item(PyStr(Fields(cls)[i].name), values[i])])

Members == {Member(FugaEnum, MemberNames(FugaEnum)[i]) : i \in 1..Len(MemberNames(FugaEnum))}

Hoges == {New(Hoge, <<PyInt(x), e>>) : x \in {1, 2}, e \in Members}

FewHoges == {New(Hoge, <<PyInt(1), Member(FugaEnum, "A")>>), New(Hoge, <<PyInt(2), Member(FugaEnum, "N")>>)}

Dates == {Datetime(1815, 12, 10, 0, 0, 0), Datetime(2024, 2, 29, 13, 5, 0)}

Persons == {New(Person, <<PyStr("Ada"), born, PyTuple(tags)>>) : born \in Dates, tags \in Seqs({PyStr("math"), PyStr("cs")})}

Indexes ==
    { PyDict(<<>>),
      PyDict(<<Item(Member(FugaEnum, "A"), PyTuple(<<PyInt(1)>>))>>),
      PyDict(<<Item(Member(FugaEnum, "B"), PyTuple(<<>>)), Item(Member(FugaEnum, "X"), PyTuple(<<PyInt(1), PyInt(2)>>))>>) }

Shelves == {New(Shelf, <<PyList(items), PyTuple(<<PyInt(7), when>>), index>>) : items \in Seqs(FewHoges), when \in Dates, index \in Indexes}

Owners == {New(Owner, <<hoge, age, boss>>) : hoge \in FewHoges, age \in {None, PyInt(5)}, boss \in {None, New(Hoge, <<PyInt(2), Member(FugaEnum, "B")>>)}}

Fwds == {New(Fwd, <<New(Hoge, <<PyInt(1), Member(FugaEnum, "B")>>), PyList(kids), maybe>>) : kids \in Seqs(FewHoges), maybe \in {None, New(Hoge, <<PyInt(1), Member(FugaEnum, "A")>>)}}

Blobs ==
    { None, PyInt(1), Bytes("x"), Datetime(1815, 12, 10, 0, 0, 0),
      Duck(Datetime(1815, 12, 10, 0, 0, 0)), Duck(PyDict(<<Item(PyStr("k"), PyInt(1))>>)),
      PyList(<<None, PyInt(1)>>), PyDict(<<Item(PyStr("k"), None)>>) }

Miscs == {New(Misc, <<blob>>) : blob \in Blobs}

\* the BaseContainer instances the calls are made on
Records == Hoges \cup Persons \cup Shelves \cup Owners \cup Fwds \cup Miscs

\* the datetime_format arguments; "" stands for None
Formats == {"", "%Y-%m-%d", "%Y-%m-%d %H:%M:%S"}

\* mappings as a caller writes them: the serialized form of a record, as it
\* is, with a key that is no field added, or with one key left out
Plain(record) == to_dict(record, TRUE, FALSE, {}, "")

WithExtra(d) == PyDict(Append(d.c, Item(PyStr("extra"), PyInt(0))))

Without(d, i) == PyDict(SubSeq(d.c, 1, i - 1) \o SubSeq(d.c, i + 1, Len(d.c)))

Variants(d) == {d, WithExtra(d)} \cup {Without(d, i) : i \in 1..Len(d.c)}

Mappings(cls) ==
    UNION {Variants(Plain(r)) : r \in {x \in Hoges \cup Owners \cup Fwds : TypeOf(x) = cls /\ ~IsRaise(Plain(x))}}

\* the generic values handed to _from_dict directly
Atoms == {None, PyInt(1), PyInt(5), PyStr("b"), PyStr("1815-12-10 00:00:00"), Bytes("x")}

HogeMaps == {Plain(h) : h \in FewHoges} \cup {PyDict(<<Item(PyStr("x"), PyInt(1))>>)}

Values ==
    Atoms \cup HogeMaps
    \cup {PyList(s) : s \in Seqs({PyInt(1), PyStr("b")})}
    \cup {PyList(s) : s \in Seqs(HogeMaps) \ {<<>>}}
    \cup {PyTuple(<<PyInt(1), PyStr("b")>>)}
    \cup {PyDict(<<Item(PyStr("k"), m)>>) : m \in HogeMaps}

Optional(type) == Alias("Union", <<type, NoneT>>)

\* type references: classes and typing aliases, and the same as text
TypeRefs ==
    { IntT, DatetimeT, FugaEnum, Hoge,
      Alias("list", <<Hoge>>), Alias("list", <<FugaEnum>>), Alias("dict", <<StrT, Hoge>>),
      Alias("tuple", <<IntT>>), Alias("tuple", <<FugaEnum>>), Alias("tuple", <<Hoge, Ellipsis>>),
      Alias("tuple", <<FugaEnum, Ellipsis>>), Alias("tuple", <<IntT, StrT>>),
      Alias("tuple", <<IntT, FugaEnum>>), Alias("tuple", <<FugaEnum, IntT, StrT>>),
      Optional(IntT), Optional(Hoge), Optional(FugaEnum), Optional(DatetimeT), Optional(Alias("list", <<Hoge>>)) }
    \cup {PyStr(text) : text \in
            { "int", "dt.datetime", "Hoge", "FugaEnum", "Nope", "datetime",
              "List[int]", "List[Hoge]", "Dict[str, Hoge]", "Tuple[Hoge, ...]", "Tuple[int, ...]",
              "Tuple[int, str]", "List[Nope]",
              "Optional[int]", "Optional[Hoge]", "Optional[FugaEnum]", "Optional[dt.datetime]",
              "Optional[List[Hoge]]", "Optional[Nope]" }}

Registries == {<<>>, <<Hoge, FugaEnum>>}

Paths == {"a.json", "data/b.yaml", "c.yml", "d.txt", "e", ".json", "f.JSON", "g.json.bak", "v1.2/h"}

\* what json.load or yaml.safe_load may return
Documents ==
    { PyDict(<<Item(PyStr("x"), PyInt(1)), Item(PyStr("e"), PyInt(1))>>),
      PyDict(<<Item(PyStr("x"), PyInt(1))>>),
      PyDict(<<Item(PyStr("name"), PyStr("Ada")), Item(PyStr("born"), PyStr("1815-12-10")),
               Item(PyStr("tags"), PyList(<<PyStr("math"), PyStr("cs")>>))>>),
      PyList(<<>>) }

(***************************************************************************)
(* The state: the call in progress, where it stands, what it returned or   *)
(* raised, and the files it opened.                                        *)
(***************************************************************************)
Call(op, self, data, ref_type, registry, path, serialize, ignore_none_fields, unserialized_types, datetime_format) ==
    [ op |-> op, self |-> self, data |-> data, ref_type |-> ref_type, custom_classes |-> registry,
      path |-> path, serialize |-> serialize, ignore_none_fields |-> ignore_none_fields,
      unserialized_types |-> unserialized_types, datetime_format |-> datetime_format ]

NoCall == Call("", MISSING, MISSING, MISSING, <<>>, "", FALSE, FALSE, {}, "")

Init ==
    /\ pc = "idle"
    /\ call = NoCall
    /\ result = MISSING
    /\ opened = <<>>
    /\ origin = NoCall
    /\ installed_pyyaml \in BOOLEAN

\* record.to_dict(serialize, ignore_none_fields, unserialized_types, datetime_format)
CallToDict ==
    /\ pc = "idle"
    /\ \E self \in Records, serialize \in BOOLEAN, ignore_none_fields \in BOOLEAN,
          unserialized_types \in {{}, {DatetimeT}}, datetime_format \in Formats :
          /\ call' = Call("to_dict", self, MISSING, MISSING, <<>>, "", serialize, ignore_none_fields, unserialized_types, datetime_format)
          /\ result' = to_dict(self, serialize, ignore_none_fields, unserialized_types, datetime_format)
    /\ pc' = "done"
    /\ UNCHANGED <<opened, origin, installed_pyyaml>>

\* cls.from_dict(data, datetime_format) on a mapping the caller wrote
CallFromDict ==
    /\ pc = "idle"
    /\ \E cls \in {Hoge, Owner, Fwd}, datetime_format \in Formats :
        \E data \in Mappings(cls) :
          /\ call' = Call("from_dict", cls, data, cls, custom_classes(cls), "", FALSE, FALSE, {}, datetime_format)
          /\ result' = from_dict(cls, data, datetime_format)
    /\ pc' = "done"
    /\ UNCHANGED <<opened, origin, installed_pyyaml>>

\* type(record).from_dict(d, datetime_format) on the d that record.to_dict returned
CallFromDictOfResult ==
    /\ pc = "done"
    /\ call.op = "to_dict"
    /\ ~IsRaise(result)
    /\ \E datetime_format \in Formats :
          /\ call' = Call("from_dict", TypeOf(call.self), result, TypeOf(call.self), custom_classes(TypeOf(call.self)), "", FALSE, FALSE, {}, datetime_format)
          /\ result' = from_dict(TypeOf(call.self), result, datetime_format)
    /\ origin' = call
    /\ UNCHANGED <<pc, opened, installed_pyyaml>>

\* _from_dict(obj, ref_type, custom_classes=..., datetime_format=...)
CallDecode ==
    /\ pc = "idle"
    /\ \E obj \in Values, ref_type \in TypeRefs, registry \in Registries, datetime_format \in {"", "%Y-%m-%d"} :
          /\ call' = Call("_from_dict", MISSING, obj, ref_type, registry, "", FALSE, FALSE, {}, datetime_format)
          /\ result' = _from_dict(obj, ref_type, DecodeKwargs(registry, datetime_format))
    /\ pc' = "done"
    /\ UNCHANGED <<opened, origin, installed_pyyaml>>

\* cls.from_file(path): the suffix dispatch, before the reader it calls runs
CallFromFile ==
    /\ pc = "idle"
    /\ \E cls \in {Hoge, Person}, path \in Paths, datetime_format \in {"", "%Y-%m-%d"} :
          /\ call' = Call("from_file", cls, MISSING, cls, custom_classes(cls), path, FALSE, FALSE, {}, datetime_format)
          /\ IF from_file(path) = "ValueError"
             THEN pc' = "done" /\ result' = Raise("ValueError")
             ELSE pc' = from_file(path) /\ result' = MISSING
    /\ UNCHANGED <<opened, origin, installed_pyyaml>>

\* cls.from_json(path) called directly
CallFromJson ==
    /\ pc = "idle"
    /\ \E cls \in {Hoge, Person}, path \in Paths :
          call' = Call("from_json", cls, MISSING, cls, custom_classes(cls), path, FALSE, FALSE, {}, "")
    /\ pc' = "from_json"
    /\ UNCHANGED <<result, opened, origin, installed_pyyaml>>

\* cls.from_yaml(path) called directly
CallFromYaml ==
    /\ pc = "idle"
    /\ \E cls \in {Hoge, Person}, path \in Paths :
          call' = Call("from_yaml", cls, MISSING, cls, custom_classes(cls), path, FALSE, FALSE, {}, "")
    /\ pc' = "from_yaml"
    /\ UNCHANGED <<result, opened, origin, installed_pyyaml>>

\* what follows open(str(path), "r"): the file is missing, the text does not
\* parse, or the loaded document goes to from_dict
Loaded(loader) ==
    \/ result' = Raise("FileNotFoundError")
    \/ result' = Raise(IF loader = "json" THEN "JSONDecodeError" ELSE "YAMLError")
    \/ \E data \in Documents : result' = from_dict(call.self, data, call.datetime_format)

\* the body of from_json (lines 179-181)
ReadJson ==
    /\ pc = "from_json"
    /\ opened' = Append(opened, Open(call.path, "r", "from_json"))
    /\ Loaded("json")
    /\ pc' = "done"
    /\ UNCHANGED <<call, origin, installed_pyyaml>>

\* the body of from_yaml (lines 199-203)
ReadYaml ==
    /\ pc = "from_yaml"
    /\ IF ~installed_pyyaml
       THEN result' = Raise("RuntimeError") /\ opened' = opened
       ELSE opened' = Append(opened, Open(call.path, "r", "from_yaml")) /\ Loaded("yaml")
    /\ pc' = "done"
    /\ UNCHANGED <<call, origin, installed_pyyaml>>

\* record.to_json(path, ...) and record.to_yaml(path, ...) up to the open():
\* to_yaml raises without PyYAML; to_dict(serialize=True) may raise
CallToFile ==
    /\ pc = "idle"
    /\ \E op \in {"to_json", "to_yaml"}, self \in Hoges \cup Miscs \cup Persons, path \in {"a.json", "data/b.yaml"},
          ignore_none_fields \in BOOLEAN, datetime_format \in {"", "%Y-%m-%d"} :
          LET data == to_dict(self, TRUE, ignore_none_fields, {}, datetime_format)
          IN  /\ call' = Call(op, self, MISSING, MISSING, <<>>, path, TRUE, ignore_none_fields, {}, datetime_format)
              /\ IF op = "to_yaml" /\ ~installed_pyyaml
                 THEN pc' = "done" /\ result' = Raise("RuntimeError")
                 ELSE /\ result' = data
                      /\ pc' = IF IsRaise(data) THEN "done" ELSE op
    /\ UNCHANGED <<opened, origin, installed_pyyaml>>

\* open(str(path), "w") and json.dump / yaml.safe_dump of the data
WriteFile ==
    /\ pc \in {"to_json", "to_yaml"}
    /\ opened' = Append(opened, Open(call.path, "w", pc))
    /\ result' = IF Dumpable(result) THEN None ELSE Raise(IF pc = "to_json" THEN "TypeError" ELSE "RepresenterError")
    /\ pc' = "done"
    /\ UNCHANGED <<call, origin, installed_pyyaml>>

\* the call is over; the caller makes another
Return ==
    /\ pc = "done"
    /\ pc' = "idle"
    /\ call' = NoCall
    /\ result' = MISSING
    /\ opened' = <<>>
    /\ origin' = NoCall
    /\ UNCHANGED installed_pyyaml

Next ==
    \/ CallToDict
    \/ CallFromDict
    \/ CallFromDictOfResult
    \/ CallDecode
    \/ CallFromFile
    \/ CallFromJson
    \/ CallFromYaml
    \/ ReadJson
    \/ ReadYaml
    \/ CallToFile
    \/ WriteFile
    \/ Return

Spec == Init /\ [][Next]_vars

(***************************************************************************)
(* The claims.                                                             *)
(***************************************************************************)
\* the keyword arguments of the _from_dict call in progress
CallKwargs == DecodeKwargs(call.custom_classes, call.datetime_format)

\* the call in progress decodes what to_dict(serialize=True) returned for the
\* record origin.self, nothing excluded and nothing filtered
DecodesEncoded ==
    /\ call.op = "from_dict"
    /\ origin.op = "to_dict"
    /\ origin.serialize
    /\ ~origin.ignore_none_fields
    /\ origin.unserialized_types = {}

\* the classes whose fields are scalars, enums, datetimes, lists, fixed and
\* variable tuples, mappings and nested records, declared as types
RoundTripClasses == {Hoge, Person, Shelf}

\* C1: without a datetime format, from_dict on the record's class of what
\* to_dict(serialize=True) returned for a record gives back a record equal to it.
C1_RoundTrip ==
    (/\ DecodesEncoded
     /\ TypeOf(origin.self) \in RoundTripClasses
     /\ origin.datetime_format = ""
     /\ call.datetime_format = "")
    => result = origin.self

\* whether an enum member of stored value None occurs in v
RECURSIVE HasNullMember(_)
HasNullMember(v) == (v.k = "member" /\ MemberValue(v) = None) \/ \E i \in 1..Len(v.c) : HasNullMember(v.c[i])

\* C1, short of its failing case: the round trip holds of every record in which
\* no enum member has the stored value None.
C1_RoundTripNonNull ==
    (/\ DecodesEncoded
     /\ TypeOf(origin.self) \in RoundTripClasses
     /\ origin.datetime_format = ""
     /\ call.datetime_format = ""
     /\ ~HasNullMember(origin.self))
    => result = origin.self

Ada == New(Person, <<PyStr("Ada"), Datetime(1815, 12, 10, 0, 0, 0), PyTuple(<<PyStr("math"), PyStr("cs")>>)>>)

AdaEncoded ==
    PyDict(<<Item(PyStr("name"), PyStr("Ada")), Item(PyStr("born"), PyStr("1815-12-10")),
             Item(PyStr("tags"), PyTuple(<<PyStr("math"), PyStr("cs")>>))>>)

\* the format writes the whole of the datetime
KeepsTime(format, when) == format = "%Y-%m-%d %H:%M:%S" \/ (when.c[4].n = 0 /\ when.c[5].n = 0 /\ when.c[6].n = 0)

\* C2: with a datetime format F, to_dict(serialize=True) writes the datetime
\* field as the string F formats (Ada's as "1815-12-10" under "%Y-%m-%d"), and
\* from_dict with the same F succeeds and gives back the original record.
C2_FormatRoundTrip ==
    (/\ DecodesEncoded
     /\ TypeOf(origin.self) = Person
     /\ origin.datetime_format # ""
     /\ call.datetime_format = origin.datetime_format
     /\ KeepsTime(origin.datetime_format, GetItem(origin.self.c, PyStr("born"))))
    => /\ GetItem(call.data.c, PyStr("born")).k = "str"
       /\ (origin.self = Ada /\ origin.datetime_format = "%Y-%m-%d") => call.data = AdaEncoded
       /\ ~IsRaise(result)
       /\ result = origin.self

\* Optional[T], as text or as the typing alias
IsOptional(ref_type) ==
    \/ ref_type.k = "str" /\ StartsWith(ref_type.s, "Optional[")
    \/ ref_type.k = "alias" /\ ref_type.s = "Union" /\ Len(ref_type.c) = 2 /\ ref_type.c[2] = NoneT

\* the T of Optional[T]
InnerType(ref_type) ==
    IF ref_type.k = "str" THEN PyStr(SubSeq(ref_type.s, 10, Len(ref_type.s) - 1)) ELSE ref_type.c[1]

\* C3: decoding None against Optional[T] gives None, and decoding any other
\* value against Optional[T] gives what decoding it against T gives, whether
\* Optional[T] is text or an already resolved descriptor.
C3_OptionalDecoding ==
    (call.op = "_from_dict" /\ IsOptional(call.ref_type))
    => result = IF call.data = None THEN None ELSE _from_dict(call.data, InnerType(call.ref_type), CallKwargs)

\* the name by which a registry entry is referred to
ShortName(cls) == IF cls = Hoge THEN "Hoge" ELSE IF cls = FugaEnum THEN "FugaEnum" ELSE ""

\* a text that is one name (Optional[name] included), which names nothing of
\* typing, no built-in, and no entry of the registry
NamesNothing(ref_type, registry) ==
    /\ ref_type.k = "str"
    /\ LET name == IF StartsWith(ref_type.s, "Optional[") THEN InnerType(ref_type).s ELSE ref_type.s
       IN  /\ Find(name, "[", 1) > Len(name)
           /\ name \notin TypingNames \cup ImportedNames \cup BuiltinNames \cup {"dt.datetime", "None", "..."}
           /\ \A i \in 1..Len(registry) : ShortName(registry[i]) # name

TupleOf(elems) == IF HasRaise(elems) THEN FirstRaise(elems) ELSE PyTuple(elems)

\* C5: a sequence of n elements decoded against a variable-length tuple type
\* (one element type, or an element type and an ellipsis) gives the tuple of
\* its n elements, each decoded against the element type; against a fixed tuple
\* type of m >= 2 element types it is decoded position by position when m = n
\* and fails with TypeError when m # n. (An element whose decoding raises makes
\* the whole decoding raise that exception.)
C5_TupleArity ==
    (/\ call.op = "_from_dict"
     /\ call.ref_type.k = "alias" /\ call.ref_type.s = "tuple"
     /\ call.data.k \in {"list", "tuple"})
    => LET n == Len(call.data.c)
           types == call.ref_type.c
       IN  IF Len(types) = 1 \/ (Len(types) = 2 /\ types[2] = Ellipsis)
           THEN /\ result = TupleOf([i \in 1..n |-> _from_dict(call.data.c[i], types[1], CallKwargs)])
                /\ ~IsRaise(result) => result.k = "tuple" /\ Len(result.c) = n
           ELSE IF Len(types) = n
           THEN result = TupleOf([i \in 1..n |-> _from_dict(call.data.c[i], types[i], CallKwargs)])
           ELSE result = Raise("TypeError")

C5_Witness ==
    /\ call.op = "_from_dict"
    /\ call.ref_type = Alias("tuple", <<FugaEnum, Ellipsis>>)
    /\ call.data = PyList(<<PyInt(1), PyStr("b")>>)
    /\ result = PyTuple(<<Member(FugaEnum, "A"), Member(FugaEnum, "B")>>)

\* C6: to_dict(serialize=True, ignore_none_fields=True) returns the top-level
\* entries of to_dict(serialize=True, ignore_none_fields=False) whose encoded
\* value is not None, in the same order and with the same values: a None below
\* the top level stays.
C6_ShallowFilter ==
    (call.op = "to_dict" /\ call.serialize /\ call.ignore_none_fields)
    => LET full == to_dict(call.self, TRUE, FALSE, call.unserialized_types, call.datetime_format)
       IN  IF IsRaise(full) THEN result = full
           ELSE /\ result.k = "dict"
                /\ \A i \in 1..Len(result.c) : result.c[i].c[2] # None
                /\ \A i \in 1..Len(full.c) :
                      full.c[i].c[2] # None => GetItem(result.c, full.c[i].c[1]) = full.c[i].c[2]
                /\ \A i \in 1..Len(result.c) : GetItem(full.c, result.c[i].c[1]) = result.c[i].c[2]
                /\ Len(result.c) = Cardinality({i \in 1..Len(full.c) : full.c[i].c[2] # None})

C6_Witness ==
    /\ call.op = "to_dict" /\ call.serialize /\ call.ignore_none_fields
    /\ call.self = New(Owner, <<New(Hoge, <<PyInt(2), Member(FugaEnum, "N")>>), None, None>>)
    /\ result = PyDict(<<Item(PyStr("hoge"), PyDict(<<Item(PyStr("x"), PyInt(2)), Item(PyStr("e"), None)>>))>>)

\* C7: during a from_file call on a path whose suffix is none of .json, .yaml
\* and .yml the call has failed with ValueError and no open() was made; with
\* the suffix .json the call is in from_json (the only function that opens the
\* file), with .yaml or .yml in from_yaml.
C7_SuffixDispatch ==
    call.op = "from_file" =>
        CASE PathSuffix(call.path) = ".json" ->
                \/ pc = "from_json" /\ opened = <<>>
                \/ pc = "done" /\ opened = <<Open(call.path, "r", "from_json")>>
          [] PathSuffix(call.path) \in {".yaml", ".yml"} ->
                \/ pc = "from_yaml" /\ opened = <<>>
                \/ pc = "done" /\ opened = <<Open(call.path, "r", "from_yaml")>>
                \/ pc = "done" /\ opened = <<>> /\ ~installed_pyyaml /\ result = Raise("RuntimeError")
          [] OTHER -> pc = "done" /\ result = Raise("ValueError") /\ opened = <<>>

C7_Witness ==
    /\ call.op = "from_file"
    /\ call.path = ".json"
    /\ pc = "done"
    /\ result = Raise("ValueError")
    /\ opened = <<>>

\* the entries of a mapping whose keys are fields of cls, and None for each
\* Optional field of cls the mapping lacks
Declared(cls, data) ==
    LET fields == Fields(cls)
    IN  PyDict(SelectSeq(data.c, LAMBDA item : \E i \in 1..Len(fields) : item.c[1] = PyStr(fields[i].name))
               \o [j \in 1..Cardinality({i \in 1..Len(fields) : IsOptional(fields[i].type) /\ GetItem(data.c, PyStr(fields[i].name)) = MISSING}) |->
                     LET i == CHOOSE i \in 1..Len(fields) :
                                 /\ IsOptional(fields[i].type) /\ GetItem(data.c, PyStr(fields[i].name)) = MISSING
                                 /\ Cardinality({h \in 1..i : IsOptional(fields[h].type) /\ GetItem(data.c, PyStr(fields[h].name)) = MISSING}) = j
                     IN  Item(PyStr(fields[i].name), None)])

\* C8: decoding a mapping against a record type ignores the keys that are no
\* fields of the record; a field the mapping lacks makes the decoding fail,
\* unless its type is Optional, and then the field is None.
C8_FieldRules ==
    (call.op = "from_dict" /\ origin = NoCall /\ call.data.k = "dict")
    => LET fields == Fields(call.self)
       IN  IF \E i \in 1..Len(fields) : ~IsOptional(fields[i].type) /\ GetItem(call.data.c, PyStr(fields[i].name)) = MISSING
           THEN IsRaise(result)
           ELSE result = from_dict(call.self, Declared(call.self, call.data), call.datetime_format)

\* the descriptor a container text stands for, its arguments taken from the registry
ResolvedForm(text) ==
    CASE text = "List[Hoge]" -> Alias("list", <<Hoge>>)
      [] text = "Dict[str, Hoge]" -> Alias("dict", <<StrT, Hoge>>)
      [] text = "Tuple[Hoge, ...]" -> Alias("tuple", <<Hoge, Ellipsis>>)
      [] OTHER -> PyStr(text)

\* C9: decoding against the text of a container type whose argument names a
\* class of the registry gives what decoding against the resolved container
\* type gives: the elements are decoded as that class.
C9_TextContainers ==
    (/\ call.op = "_from_dict"
     /\ call.ref_type.k = "str"
     /\ call.ref_type.s \in {"List[Hoge]", "Dict[str, Hoge]", "Tuple[Hoge, ...]"}
     /\ call.custom_classes = <<Hoge, FugaEnum>>
     /\ call.data.k \in {"list", "tuple", "dict"})
    => result = _from_dict(call.data, ResolvedForm(call.ref_type.s), CallKwargs)

\* a Generic Value: None, a boolean, a number, a string, a sequence of Generic
\* Values, or a mapping from such primitives to Generic Values
RECURSIVE IsGenericValue(_)
IsGenericValue(v) ==
    CASE v.k \in {"NoneType", "bool", "int", "float", "str"} -> TRUE
      [] v.k \in {"list", "tuple"} -> \A i \in 1..Len(v.c) : IsGenericValue(v.c[i])
      [] v.k = "dict" -> \A i \in 1..Len(v.c) :
            /\ v.c[i].c[1].k \in {"NoneType", "bool", "int", "float", "str"}
            /\ IsGenericValue(v.c[i].c[2])
      [] OTHER -> FALSE

\* whether an object with a to_dict method of its own occurs in v
RECURSIVE HasDuck(_)
HasDuck(v) == v.k = "duck" \/ \E i \in 1..Len(v.c) : HasDuck(v.c[i])

\* C10: what to_dict(serialize=True) returns with no type excluded, and so what
\* to_json and to_yaml hand to the text-format library, is a Generic Value at
\* every depth. (Stated for the records that hold no object with a to_dict of
\* its own, whose output is passed on as it is.)
C10_GenericOutput ==
    /\ (call.op = "to_dict" /\ call.serialize /\ call.unserialized_types = {} /\ ~HasDuck(call.self) /\ ~IsRaise(result))
       => IsGenericValue(result)
    /\ (pc \in {"to_json", "to_yaml"} /\ ~HasDuck(call.self)) => IsGenericValue(result)

====
